---- MODULE Spec2Model ----
(***************************************************************************)
(* Model of subsys/bluetooth/controller/hci/hci_driver.c: the two receive  *)
(* threads (prio_recv_thread, recv_thread), the host-buffer flow control   *)
(* gate (process_hbuf, process_node), encode_node, cmd_handle and the ISO  *)
(* SDU sink callbacks (sink_sdu_alloc_hci, sink_sdu_write_hci,             *)
(* sink_sdu_emit_hci).                                                     *)
(*                                                                         *)
(* Both receive threads are cooperative (K_PRIO_COOP), so a thread runs    *)
(* from one blocking or yielding call to the next without interleaving:    *)
(* one action is one such stretch of code. The K_FOREVER buffer            *)
(* allocations are taken to return at once (the pools are not empty).      *)
(*                                                                         *)
(* hci.c and the link layer are not part of this file. What the driver     *)
(* needs of them is modelled from its calls and from the interface         *)
(* description: the classifier, the host buffer counts and the commands    *)
(* that change them (which raise hbuf_signal, handed over by hci_init),    *)
(* the completion queues behind ll_rx_get / ll_iso_rx_get. Flow control    *)
(* is switched on at most once between two resets and not switched off     *)
(* otherwise.                                                              *)
(***************************************************************************)
EXTENDS Integers, Sequences, FiniteSets, TLC

\* ------------------------------------------------------------------ bounds
MaxUnits == 3
MaxCmplt == 1
MaxTotal == 2
MaxCmds == 1
\* completed entries the link layer may have waiting for prio_recv_thread
MaxRxq == 2

\* ----------------------------------------------------------------- classes
HCI_CLASS_NONE == "NONE"
HCI_CLASS_EVT_DISCARDABLE == "EVT_DISCARDABLE"
HCI_CLASS_EVT_REQUIRED == "EVT_REQUIRED"
HCI_CLASS_EVT_CONNECTION == "EVT_CONNECTION"
HCI_CLASS_EVT_LLCP == "EVT_LLCP"
HCI_CLASS_ACL_DATA == "ACL_DATA"
HCI_CLASS_ISO_DATA == "ISO_DATA"

\* node_rx->hdr.type, as far as the driver and the classifier tell types apart
RxTypes == {"ADV_REPORT", "CONNECTION", "TERMINATE", "CONN_UPDATE", "DC_PDU"}
IsoType == "ISO_PDU"
CmdTypes == {"CONNECTION"}
Handles == {64, 65}
\* The driver reads hdr.handle of a unit only for a termination (the handle of the
\* disconnection event) and for ISO data (the stream lookup).
HandlesOf(t) == IF t \in {"TERMINATE", "ISO_PDU"} THEN Handles ELSE {64}
\* What ll_rx_get() may report: (handle, count)
Cmplts == {<<64, 1>>, <<65, 3>>}

UnitIds == 1..MaxUnits
NoNode == 0

VARIABLES
    \* controller domain (ll_rx_get / ll_iso_rx_get side)
    rxq,            \* general completion queue: nodes and tx-completion records
    rx_log,         \* everything ever put on rxq, in order
    isoq,           \* isochronous completion queue
    node_type,      \* node_rx->hdr.type of every unit created so far
    node_handle,    \* node_rx->hdr.handle
    next_id,        \* next unit to be created
    n_cmplt,        \* completion records created so far
    sem_prio_recv,  \* the wake semaphore
    \* prio_recv_thread
    pc_prio,        \* "top" (of the loop), "loop" (after k_yield in the ll_rx_get loop),
                    \* "wait" (in k_sem_take)
    iso_received,
    prio_out,       \* what bt_recv_prio was called with, in order
    \* handover
    recv_fifo,
    arrived,        \* every unit ever put on recv_fifo, in k_fifo_put order
    \* flow control gate and recv_thread
    hbuf_signal,
    hbuf_pend,
    hbuf_count,
    reset_bit,      \* HCI_STATE_BIT_RESET of hci_state_mask
    hci_hbuf_total,
    hci_hbuf_sent,
    hci_hbuf_acked,
    user_meta,      \* node_rx->hdr.user_meta
    class_writes,   \* how often user_meta of a unit has been written
    released,       \* how often ll_rx_mem_release / ll_iso_rx_mem_release got the unit
    host_out,       \* what bt_recv was called with by recv_thread, in order
    flushed,        \* units dropped from hbuf_pend by a reset
    n_cmds,
    ll_assert,      \* the system is halted: a fatal LL_ASSERT was reached, or an
                    \* invalid pointer was dereferenced and the CPU faulted
    \* ISO receive path of encode_node
    iso_build,      \* which of CONFIG_BT_CTLR_CONN_ISO / CONFIG_BT_CTLR_SYNC_ISO is built
    node_iso,       \* what the stream lookups of encode_node find for an ISO unit
    \* hci_driver_send
    send_log,       \* one record per call: the packet, what was done with it, the result
    cmd_ops,        \* the calls cmd_handle made towards the host and recv_thread, in order
    \* ISO SDU sink callbacks
    iso_pc,         \* "idle", or "sdu": a buffer is allocated for the SDU in production
    iso_sink,       \* the sink context: session handle, sdu_written
    iso_buf,        \* the net_buf of the SDU in production
    iso_out,        \* the packet the latest emit gave to bt_recv, and its parameters
    iso_skip_invalid \* CONFIG_BT_CTLR_CONN_ISO_HCI_DATAPATH_SKIP_INVALID_DATA

gateVars == <<hbuf_signal, hbuf_pend, hbuf_count, reset_bit, flushed>>
creditVars == <<hci_hbuf_total, hci_hbuf_sent, hci_hbuf_acked>>
ctlrVars == <<rxq, rx_log, isoq, node_type, node_handle, next_id, n_cmplt, sem_prio_recv>>
prioVars == <<pc_prio, iso_received, prio_out>>
unitVars == <<user_meta, class_writes, released>>
isoVars == <<iso_pc, iso_sink, iso_buf, iso_out, iso_skip_invalid>>
sendVars == <<send_log, cmd_ops>>
isoRxVars == <<iso_build, node_iso>>
mainVars == <<ctlrVars, prioVars, recv_fifo, arrived, gateVars, creditVars, unitVars,
              host_out, n_cmds, ll_assert, sendVars, isoRxVars>>
vars == <<mainVars, isoVars>>

IsoIdle == [handle |-> 0, written |-> 0]

\* The ISO receive code of a build: the block under CONFIG_BT_CTLR_CONN_ISO, the
\* block under CONFIG_BT_CTLR_SYNC_ISO, or both, one after the other.
IsoBuilds == {"CONN_ISO", "SYNC_ISO", "BOTH"}
HasConnIso == iso_build \in {"CONN_ISO", "BOTH"}
HasSyncIso == iso_build \in {"SYNC_ISO", "BOTH"}

\* What encode_node finds for an ISO unit. kind: the handle is that of a
\* connected stream (IS_CIS_HANDLE) or of a broadcast stream. stream: the lookup
\* of its own kind gives a stream (ll_conn_iso_stream_get always does). dp: the
\* stream's datapath: none, the HCI datapath (the sink callbacks of this file),
\* or another (vendor) datapath.
IsoCase(kind, stream, dp) == [kind |-> kind, stream |-> stream, dp |-> dp]
NoStream == IsoCase("none", FALSE, "none")
IsoCases ==
    {IsoCase("CIS", TRUE, dp) : dp \in {"none", "hci", "vendor"}}
    \cup {IsoCase("BIS", FALSE, "none")}
    \cup {IsoCase("BIS", TRUE, dp) : dp \in {"none", "hci", "vendor"}}
\* The stream kinds a build receives.
IsoKinds ==
    CASE iso_build = "CONN_ISO" -> {"CIS"}
      [] iso_build = "SYNC_ISO" -> {"BIS"}
      [] OTHER -> {"CIS", "BIS"}
\* A stream set up with the HCI datapath, of the kind the build receives.
IsoHealthy == IsoCase(IF iso_build = "CONN_ISO" THEN "CIS" ELSE "BIS", TRUE, "hci")
NoSdu == [bytes |-> <<>>, handle |-> 0, pb |-> 0, written |-> 0, status |-> 0,
          ts |-> 0, seqn |-> 0, n |-> 0]

InitMain ==
    /\ rxq = <<>> /\ rx_log = <<>> /\ isoq = <<>>
    /\ node_type = [u \in UnitIds |-> "none"]
    /\ node_handle = [u \in UnitIds |-> 0]
    /\ next_id = 1 /\ n_cmplt = 0 /\ sem_prio_recv = 0
    /\ pc_prio = "top" /\ iso_received = FALSE /\ prio_out = <<>>
    /\ recv_fifo = <<>> /\ arrived = <<>>
    /\ hbuf_signal = 0 /\ hbuf_pend = <<>> /\ hbuf_count = 0 /\ reset_bit = FALSE
    /\ hci_hbuf_total = 0 /\ hci_hbuf_sent = 0 /\ hci_hbuf_acked = 0
    /\ user_meta = [u \in UnitIds |-> HCI_CLASS_NONE]
    /\ class_writes = [u \in UnitIds |-> 0]
    /\ released = [u \in UnitIds |-> 0]
    /\ host_out = <<>>
    /\ flushed = {}
    /\ n_cmds = 0 /\ ll_assert = FALSE
    /\ send_log = <<>>
    /\ cmd_ops = <<>>
    /\ iso_build \in IsoBuilds
    /\ node_iso = [u \in UnitIds |-> NoStream]

InitIso ==
    /\ iso_pc = "idle" /\ iso_sink = IsoIdle
    /\ iso_buf = [headroom |-> 0, data |-> <<>>] /\ iso_out = NoSdu
    /\ iso_skip_invalid \in BOOLEAN

Init == InitMain /\ InitIso

\* The receive threads do not look at the SDU sink or its option. A build with
\* one kind of ISO stream.
InitRecv == Init /\ ~iso_skip_invalid /\ iso_build = "SYNC_ISO"

Range(q) == {q[i] : i \in 1..Len(q)}

\* ------------------------------------------------------------ classifier
\* hci_get_class(): the class of a unit follows from its type alone.
ClassOfType(t) ==
    CASE t = "ADV_REPORT" -> HCI_CLASS_EVT_DISCARDABLE
      [] t = "CONNECTION" -> HCI_CLASS_EVT_REQUIRED
      [] t = "TERMINATE" -> HCI_CLASS_EVT_CONNECTION
      [] t = "CONN_UPDATE" -> HCI_CLASS_EVT_LLCP
      [] t = "DC_PDU" -> HCI_CLASS_ACL_DATA
      [] t = "ISO_PDU" -> HCI_CLASS_ISO_DATA
      [] OTHER -> HCI_CLASS_NONE

hci_get_class(u) == ClassOfType(node_type[u])

StoreClassSkipped(us) == user_meta

\* node_rx->hdr.user_meta = hci_get_class(node_rx);
StoreClass(us) ==
    [u \in UnitIds |-> IF u \in us THEN hci_get_class(u) ELSE user_meta[u]]
CountClassWrite(us) ==
    [u \in UnitIds |-> IF u \in us THEN class_writes[u] + 1 ELSE class_writes[u]]

FifoPutFront(u) ==
    /\ recv_fifo' = <<u>> \o recv_fifo
    /\ arrived' = Append(arrived, u)

\* k_fifo_put(&recv_fifo, node_rx)
FifoPut(u) ==
    /\ recv_fifo' = Append(recv_fifo, u)
    /\ arrived' = Append(arrived, u)

\* ------------------------------------------------------ controller domain
RxBacklog == Len(rxq) + Len(isoq)
RxNode(u) == [k |-> "node", id |-> u, handle |-> 0, count |-> 0]
RxCmplt(h, c) == [k |-> "cmplt", id |-> NoNode, handle |-> h, count |-> c]

\* The link layer completes a unit on the general queue and gives the semaphore.
CtlrRx(t, h) ==
    /\ ~ll_assert /\ next_id <= MaxUnits /\ RxBacklog < MaxRxq
    /\ rxq' = Append(rxq, RxNode(next_id))
    /\ rx_log' = Append(rx_log, RxNode(next_id))
    /\ node_type' = [node_type EXCEPT ![next_id] = t]
    /\ node_handle' = [node_handle EXCEPT ![next_id] = h]
    /\ next_id' = next_id + 1
    /\ sem_prio_recv' = sem_prio_recv + 1
    /\ UNCHANGED <<isoq, n_cmplt, prioVars, recv_fifo, arrived, gateVars, creditVars,
                   unitVars, host_out, n_cmds, ll_assert, isoVars, sendVars, isoRxVars>>

\* The link layer reports completed outbound packets of one handle: a record that
\* ll_rx_get() hands out before the units completed after it.
CtlrTxCmplt(h, c) ==
    /\ ~ll_assert /\ n_cmplt < MaxCmplt /\ RxBacklog < MaxRxq
    /\ rxq' = Append(rxq, RxCmplt(h, c))
    /\ rx_log' = Append(rx_log, RxCmplt(h, c))
    /\ n_cmplt' = n_cmplt + 1
    /\ sem_prio_recv' = sem_prio_recv + 1
    /\ UNCHANGED <<isoq, node_type, node_handle, next_id, prioVars, recv_fifo, arrived,
                   gateVars, creditVars, unitVars, host_out, n_cmds,
                   ll_assert, isoVars, sendVars, isoRxVars>>

\* The link layer completes a unit on the isochronous queue: of handle h, with
\* the stream and datapath c behind it.
CtlrIsoRx(h, c) ==
    /\ ~ll_assert /\ next_id <= MaxUnits /\ RxBacklog < MaxRxq
    /\ c.kind \in IsoKinds
    /\ isoq' = Append(isoq, next_id)
    /\ node_type' = [node_type EXCEPT ![next_id] = IsoType]
    /\ node_handle' = [node_handle EXCEPT ![next_id] = h]
    /\ node_iso' = [node_iso EXCEPT ![next_id] = c]
    /\ next_id' = next_id + 1
    /\ sem_prio_recv' = sem_prio_recv + 1
    /\ UNCHANGED <<rxq, rx_log, n_cmplt, prioVars, recv_fifo, arrived, gateVars,
                   creditVars, unitVars, host_out, n_cmds, ll_assert,
                   isoVars, sendVars, iso_build>>

\* ------------------------------------------------------- prio_recv_thread
PrioEvt(e, h, c, u) == [evt |-> e, handle |-> h, count |-> c, unit |-> u]

\* process_prio_evt(): the event to send on the priority channel (or none) and
\* evt_flags.
process_prio_evt(u, class) ==
    IF class = HCI_CLASS_EVT_CONNECTION /\ node_type[u] = "TERMINATE"
    THEN [buf |-> <<PrioEvt("DISCONN_COMPLETE", node_handle[u], 0, u)>>,
          evt_flags |-> {"RECV_PRIO", "RECV"}]
    ELSE [buf |-> <<>>, evt_flags |-> {"RECV"}]

ForwardsNever(evt_flags) == FALSE

\* Whether the unit taken from the general queue goes on to recv_thread.
Forwards(evt_flags) == "RECV" \in evt_flags

\* The isochronous queue is looked at once per iteration, at the top of the loop.
IsoTaken == IF pc_prio = "top" /\ isoq # <<>> THEN <<Head(isoq)>> ELSE <<>>
IsoReceivedStale == iso_received
IsoReceived == IF pc_prio = "top" THEN isoq # <<>> ELSE iso_received

\* The units this stretch of prio_recv_thread classifies and puts on recv_fifo
\* (the ISO unit first), and those among them it does not put there.
PrioHandover(nodes, kept) ==
    /\ isoq' = IF IsoTaken # <<>> THEN Tail(isoq) ELSE isoq
    /\ user_meta' = StoreClass(Range(IsoTaken \o nodes))
    /\ class_writes' = CountClassWrite(Range(IsoTaken \o nodes))
    /\ recv_fifo' = recv_fifo \o IsoTaken \o kept
    /\ arrived' = arrived \o IsoTaken \o kept

NumCmpltEvtOne(handle, num_cmplt) ==
    [evt |-> "NUM_COMPLETED_PACKETS", handle |-> handle, count |-> 1, unit |-> NoNode]

\* hci_num_cmplt_encode(buf, handle, num_cmplt)
NumCmpltEvt(handle, num_cmplt) ==
    PrioEvt("NUM_COMPLETED_PACKETS", handle, num_cmplt, NoNode)

\* ll_rx_get() returned a count: encode and send the event, then k_yield().
PrioNumCmplt ==
    /\ ~ll_assert /\ pc_prio \in {"top", "loop"}
    /\ rxq # <<>> /\ Head(rxq).k = "cmplt"
    /\ PrioHandover(<<>>, <<>>)
    /\ prio_out' = Append(prio_out, NumCmpltEvt(Head(rxq).handle, Head(rxq).count))
    /\ rxq' = Tail(rxq)
    /\ iso_received' = IsoReceived
    /\ pc_prio' = "loop"
    /\ UNCHANGED <<rx_log, node_type, node_handle, next_id, n_cmplt, sem_prio_recv,
                   gateVars, creditVars, released, host_out, n_cmds,
                   ll_assert, isoVars, sendVars, isoRxVars>>

\* if (iso_received || node_rx) continue; after a unit was taken. node_rx is
\* still set when the unit was put on recv_fifo. ll_rx_mem_release() is given
\* the address of node_rx: after a release in this thread the pointer is what
\* the link layer left in it, either the unit or NULL.
AfterNode(released_here) ==
    IF released_here /\ ~IsoReceived THEN {"top", "wait"} ELSE {"top"}

\* ll_rx_get() returned 0 and a unit: dequeue, classify, priority event, handover;
\* then the next iteration.
PrioNode ==
    /\ ~ll_assert /\ pc_prio \in {"top", "loop"}
    /\ rxq # <<>> /\ Head(rxq).k = "node"
    /\ LET u == Head(rxq).id
           r == process_prio_evt(u, hci_get_class(u))
       IN /\ rxq' = Tail(rxq)
          /\ PrioHandover(<<u>>, IF Forwards(r.evt_flags) THEN <<u>> ELSE <<>>)
          /\ prio_out' = prio_out \o r.buf
          /\ released' = IF r.buf # <<>> /\ ~Forwards(r.evt_flags)
                          THEN [released EXCEPT ![u] = @ + 1] ELSE released
          /\ pc_prio' \in AfterNode(r.buf # <<>> /\ ~Forwards(r.evt_flags))
    /\ iso_received' = FALSE
    /\ UNCHANGED <<rx_log, node_type, node_handle, next_id, n_cmplt, sem_prio_recv,
                   gateVars, creditVars, host_out, n_cmds, ll_assert,
                   isoVars, sendVars, isoRxVars>>

\* ll_rx_get() returned 0 and no unit: the next iteration if an ISO unit was
\* handed over in this one, else k_sem_take().
PrioEnd ==
    /\ ~ll_assert /\ pc_prio \in {"top", "loop"}
    /\ rxq = <<>>
    /\ PrioHandover(<<>>, <<>>)
    /\ iso_received' = FALSE
    /\ pc_prio' = IF IsoReceived THEN "top" ELSE "wait"
    /\ UNCHANGED <<rxq, rx_log, node_type, node_handle, next_id, n_cmplt,
                   sem_prio_recv, prio_out, gateVars, creditVars, released, host_out,
                   n_cmds, ll_assert, isoVars, sendVars, isoRxVars>>

\* k_sem_take(&sem_prio_recv, K_FOREVER) returns.
PrioSemTake ==
    /\ ~ll_assert /\ pc_prio = "wait"
    /\ sem_prio_recv > 0
    /\ sem_prio_recv' = sem_prio_recv - 1
    /\ pc_prio' = "top"
    /\ UNCHANGED <<rxq, rx_log, isoq, node_type, node_handle, next_id, n_cmplt,
                   iso_received, prio_out, recv_fifo, arrived, gateVars, creditVars, unitVars,
                   host_out, n_cmds, ll_assert, isoVars, sendVars, isoRxVars>>

\* ------------------------------------------------------------ encode_node
EventClasses == {HCI_CLASS_EVT_DISCARDABLE, HCI_CLASS_EVT_REQUIRED,
                 HCI_CLASS_EVT_CONNECTION, HCI_CLASS_EVT_LLCP}
GatedClasses == {HCI_CLASS_EVT_CONNECTION, HCI_CLASS_EVT_LLCP, HCI_CLASS_ACL_DATA}
KnownClasses == EventClasses \cup {HCI_CLASS_ACL_DATA, HCI_CLASS_ISO_DATA}

HostPkt(u, via) == [unit |-> u, via |-> via]

\* What recv_thread's delivery loop, or the SDU sink's emit, hands to bt_recv for
\* one unit. An event may yield nothing: no buffer for a discardable event
\* (K_NO_WAIT), or an encoder that leaves the buffer empty (the empty fragment is
\* unreferenced and not delivered). ACL data always yields its packet. ISO data
\* yields no packet from encode_node (buf stays NULL); what the recombination
\* emits is in IsoEncode.
EncodeOutcomes(u, class) ==
    CASE class \in EventClasses -> {<<>>, <<HostPkt(u, "encode")>>}
      [] class = HCI_CLASS_ACL_DATA -> {<<HostPkt(u, "encode")>>}
      [] class = HCI_CLASS_ISO_DATA -> {<<>>}
      [] OTHER -> {<<>>}

\* How far encode_node gets and what reached bt_recv meanwhile.
EncRes(halt, out) == [halt |-> halt, out |-> out]

ISOAL_STATUS_OK == "OK"
ISOAL_STATUS_ERR_SDU_ALLOC == "ERR_SDU_ALLOC"
ISOAL_STATUS_ERR_SDU_EMIT == "ERR_SDU_EMIT"

\* What isoal_rx_pdu_recombine() returns. The sink callbacks of this file all
\* return ISOAL_STATUS_OK; the callbacks of another datapath may fail.
RecombineErrs(dp) ==
    IF dp = "hci" THEN {ISOAL_STATUS_OK}
    ELSE {ISOAL_STATUS_OK, ISOAL_STATUS_ERR_SDU_ALLOC, ISOAL_STATUS_ERR_SDU_EMIT}

\* isoal_rx_pdu_recombine() followed by its LL_ASSERT: a fragment that completes
\* an SDU on the HCI datapath emits it to bt_recv.
Recombine(u, dp, tolerated) ==
    UNION {{EncRes(err \notin tolerated, out) :
               out \in IF err = ISOAL_STATUS_OK /\ dp = "hci"
                       THEN {<<>>, <<HostPkt(u, "emit")>>} ELSE {<<>>}} :
           err \in RecombineErrs(dp)}

\* hdr->datapath_out with hdr == NULL, or dp->sink_hdl with dp == NULL: the CPU
\* faults, or the read gives garbage and the code goes on, past the datapath
\* test or into a recombination on whatever sink the garbage names.
InvalidDeref(u) ==
    {EncRes(TRUE, <<>>), EncRes(FALSE, <<>>), EncRes(FALSE, <<HostPkt(u, "emit")>>)}

\* The block under CONFIG_BT_CTLR_CONN_ISO: hdr is set for a CIS handle only,
\* then hdr->datapath_out and dp->sink_hdl are read without a test.
IsoConnPart(u) ==
    LET c == node_iso[u]
    IN IF ~HasConnIso THEN {EncRes(FALSE, <<>>)}
       ELSE IF c.kind # "CIS" \/ c.dp = "none" THEN InvalidDeref(u)
       ELSE IF c.dp = "hci" THEN Recombine(u, c.dp, {ISOAL_STATUS_OK})
       ELSE {EncRes(FALSE, <<>>)}

\* What ull_sync_iso_stream_get() finds: the unit's own stream for a broadcast
\* handle; for a CIS handle whatever the broadcast stream table holds there.
SyncLookup(u) ==
    IF node_iso[u].kind = "BIS" THEN {node_iso[u]}
    ELSE {c \in IsoCases : c.kind = "BIS"}

\* The block under CONFIG_BT_CTLR_SYNC_ISO, entered after `before`: recombine if
\* (stream && stream->dp), whatever the datapath id.
IsoSyncPart(u, before) ==
    IF ~HasSyncIso THEN {before}
    ELSE UNION {IF l.stream /\ l.dp # "none"
                THEN {EncRes(r.halt, before.out \o r.out) :
                         r \in Recombine(u, l.dp, {ISOAL_STATUS_OK,
                                                   ISOAL_STATUS_ERR_SDU_ALLOC})}
                ELSE {before} :
                l \in SyncLookup(u)}

\* case HCI_CLASS_ISO_DATA of encode_node, up to the release of the unit
IsoEncode(u) ==
    UNION {IF first.halt THEN {first} ELSE IsoSyncPart(u, first) :
           first \in IsoConnPart(u)}

EncodeResults(u, class) ==
    IF class = HCI_CLASS_ISO_DATA THEN IsoEncode(u)
    ELSE {EncRes(FALSE, out) : out \in EncodeOutcomes(u, class)}

\* hci_acl_encode() counts the packet as sent while flow control is enabled.
SentAfterEncode(class) ==
    IF class = HCI_CLASS_ACL_DATA /\ hci_hbuf_total > 0
    THEN hci_hbuf_sent + 1 ELSE hci_hbuf_sent

EncodeNodeNoRelease(u, class, out) ==
    /\ released' = released
    /\ host_out' = host_out \o out
    /\ hci_hbuf_sent' = SentAfterEncode(class)

\* encode_node(): encode, count, release the unit; the packets go to bt_recv.
EncodeNode(u, class, out) ==
    /\ released' = [released EXCEPT ![u] = @ + 1]
    /\ host_out' = host_out \o out
    /\ hci_hbuf_sent' = SentAfterEncode(class)

\* ------------------------------------------------------ flow control gate
HbufAvailTotal(total, sent, acked) == total

\* available host buffers
HbufAvail(total, sent, acked) == total - (sent - acked)

HeadReadyNever(class, count) == FALSE
HeadReadyAlways(class, count) == TRUE

\* The head of hbuf_pend can be processed now: schedule an iteration.
HeadReady(class, count) ==
    \/ class = HCI_CLASS_EVT_CONNECTION
    \/ class = HCI_CLASS_EVT_LLCP
    \/ (class = HCI_CLASS_ACL_DATA /\ count # 0)

\* The switch of the retry pass: the head is taken off hbuf_pend.
RetryDequeues(class, count) ==
    CASE class \in {HCI_CLASS_EVT_CONNECTION, HCI_CLASS_EVT_LLCP} -> TRUE
      [] class = HCI_CLASS_ACL_DATA -> count # 0
      [] OTHER -> FALSE

RetryAsserts(class) == class \notin GatedClasses

PendKept(reset) == hbuf_pend

\* atomic_test_and_clear_bit(): flush the queue on reset, no release.
PendAfterReset(reset) == IF reset THEN <<>> ELSE hbuf_pend

\* process_hbuf(n): the queue it leaves, hbuf_count, whether it raises
\* hbuf_signal, the unit it dequeued and encodes (NoNode: none), and whether it
\* hits its LL_ASSERT.
process_hbuf(n) ==
    LET pend == PendAfterReset(reset_bit)
        hbuf_total == hci_hbuf_total
        count == HbufAvail(hbuf_total, hci_hbuf_sent, hci_hbuf_acked)
        quiet == [pend |-> pend, count |-> count, raise |-> FALSE, node |-> NoNode,
                  assert |-> FALSE]
    IN IF hbuf_total <= 0 THEN [quiet EXCEPT !.count = -1]
       ELSE IF pend = <<>> THEN quiet
       ELSE LET head == Head(pend)
                class == user_meta[head]
            IN IF n # NoNode
               THEN [quiet EXCEPT !.raise = HeadReady(class, count)]
               ELSE IF RetryAsserts(class) THEN [quiet EXCEPT !.assert = TRUE]
               ELSE IF ~RetryDequeues(class, count) THEN quiet
               ELSE LET rest == Tail(pend)
                        after == HbufAvail(hbuf_total, SentAfterEncode(class),
                                           hci_hbuf_acked)
                    IN [pend |-> rest, count |-> after,
                        raise |-> rest # <<>>
                                  /\ HeadReady(user_meta[Head(rest)], after),
                        node |-> head, assert |-> FALSE]

GateCountKept(class, count) == count

\* process_node(): conn-related events force hbuf_count to 1 ("only pend is
\* relevant").
GateCount(class, count) ==
    IF class \in {HCI_CLASS_EVT_CONNECTION, HCI_CLASS_EVT_LLCP} THEN 1 ELSE count

GateParksRequired(class, pend, count) ==
    /\ count # -1
    /\ class \in GatedClasses \cup {HCI_CLASS_EVT_REQUIRED}
    /\ (pend \/ GateCount(class, count) = 0)

GateParksNoCredit(class, pend, count) ==
    /\ count # -1
    /\ class \in GatedClasses
    /\ pend

GateParksCountOnly(class, pend, count) ==
    /\ count # -1
    /\ class \in GatedClasses
    /\ GateCount(class, count) = 0

\* process_node(): the unit is appended to hbuf_pend instead of being encoded.
GateParks(class, pend, count) ==
    /\ count # -1
    /\ class \in GatedClasses
    /\ (pend \/ GateCount(class, count) = 0)

PendPrepend(pend, n) == <<n>> \o pend

\* sys_slist_append(&hbuf_pend, (void *)node_rx)
PendAppend(pend, n) == Append(pend, n)

\* ------------------------------------------------------------- recv_thread
FifoAfterPollTakes(signaled) ==
    IF recv_fifo # <<>> THEN Tail(recv_fifo) ELSE recv_fifo

\* if (events[0].state == K_POLL_STATE_SIGNALED) ... else if (events[1].state ==
\* K_POLL_STATE_FIFO_DATA_AVAILABLE) node_rx = k_fifo_get(...): recv_fifo after it
FifoAfterPoll(signaled) == IF signaled THEN recv_fifo ELSE Tail(recv_fifo)

\* k_poll() returned with the FIFO ready and the signal not raised: take a unit
\* off recv_fifo, process_hbuf(node_rx), process_node(node_rx), deliver.
WorkerFifo ==
    /\ ~ll_assert /\ hbuf_signal = 0 /\ recv_fifo # <<>>
    /\ LET n == Head(recv_fifo)
           class == user_meta[n]
           r == process_hbuf(n)
       IN /\ recv_fifo' = FifoAfterPoll(FALSE)
          /\ reset_bit' = FALSE
          /\ flushed' = IF reset_bit THEN flushed \cup Range(hbuf_pend) ELSE flushed
          /\ hbuf_signal' = IF r.raise THEN 1 ELSE hbuf_signal
          /\ hbuf_count' = IF r.count # -1 /\ class \in KnownClasses
                           THEN GateCount(class, r.count) ELSE r.count
          /\ IF class \notin KnownClasses
             THEN /\ ll_assert' = TRUE
                  /\ hbuf_pend' = r.pend
                  /\ UNCHANGED <<released, host_out, hci_hbuf_sent>>
             ELSE IF GateParks(class, r.pend # <<>>, r.count)
             THEN /\ hbuf_pend' = PendAppend(r.pend, n)
                  /\ UNCHANGED <<released, host_out, hci_hbuf_sent, ll_assert>>
             ELSE /\ hbuf_pend' = r.pend
                  /\ \E res \in EncodeResults(n, class) :
                        IF res.halt
                        THEN /\ ll_assert' = TRUE
                             /\ host_out' = host_out \o res.out
                             /\ UNCHANGED <<released, hci_hbuf_sent>>
                        ELSE /\ EncodeNode(n, class, res.out)
                             /\ UNCHANGED ll_assert
    /\ UNCHANGED <<ctlrVars, prioVars, arrived, hci_hbuf_total, hci_hbuf_acked,
                   user_meta, class_writes, n_cmds, isoVars, sendVars, isoRxVars>>

\* k_poll() returned with the signal raised: clear it, process_hbuf(NULL), deliver
\* what it dequeued. Nothing is taken off recv_fifo.
WorkerRetry ==
    /\ ~ll_assert /\ hbuf_signal = 1
    /\ LET r == process_hbuf(NoNode)
           pend == PendAfterReset(reset_bit)
           head == IF pend = <<>> THEN NoNode ELSE Head(pend)
           class == IF head = NoNode THEN HCI_CLASS_NONE ELSE user_meta[head]
       IN /\ recv_fifo' = FifoAfterPoll(TRUE)
          /\ reset_bit' = FALSE
          /\ flushed' = IF reset_bit THEN flushed \cup Range(hbuf_pend) ELSE flushed
          /\ hbuf_signal' = IF r.raise THEN 1 ELSE 0
          /\ hbuf_count' = r.count
          /\ hbuf_pend' = r.pend
          /\ IF r.assert
             THEN /\ ll_assert' = TRUE
                  /\ UNCHANGED <<released, host_out, hci_hbuf_sent>>
             ELSE IF r.node = NoNode
             THEN UNCHANGED <<released, host_out, hci_hbuf_sent, ll_assert>>
             ELSE /\ \E out \in EncodeOutcomes(r.node, class) :
                         EncodeNode(r.node, class, out)
                  /\ UNCHANGED ll_assert
    /\ UNCHANGED <<ctlrVars, prioVars, arrived, hci_hbuf_total,
                   hci_hbuf_acked, user_meta, class_writes, n_cmds, isoVars, sendVars, isoRxVars>>

\* ------------------------------------------------------------ host commands
\* Host Buffer Size: remembers the number of host ACL buffers, flow control
\* still disabled (a negative total).
HostBufferSize(n) ==
    /\ ~ll_assert /\ hci_hbuf_total = 0
    /\ hci_hbuf_total' = -n
    /\ UNCHANGED <<ctlrVars, prioVars, recv_fifo, arrived, gateVars, hci_hbuf_sent,
                   hci_hbuf_acked, unitVars, host_out, n_cmds, ll_assert,
                   isoVars, sendVars, isoRxVars>>

\* Set Controller To Host Flow Control (enable): the total becomes positive and
\* the counts start again. The command is disallowed while a connection is up:
\* here, once the link layer has reported anything of a connection.
HostFlowEnable ==
    /\ ~ll_assert /\ hci_hbuf_total < 0
    /\ \A u \in 1..(next_id - 1) : node_type[u] \in {"ADV_REPORT", "ISO_PDU"}
    /\ hci_hbuf_total' = -hci_hbuf_total
    /\ hci_hbuf_sent' = 0 /\ hci_hbuf_acked' = 0
    /\ UNCHANGED <<ctlrVars, prioVars, recv_fifo, arrived, gateVars, unitVars,
                   host_out, n_cmds, ll_assert, isoVars, sendVars, isoRxVars>>

\* Host Number Of Completed Packets: the host acknowledges c delivered ACL
\* packets and the re-check signal is raised.
HostAck(c) ==
    /\ ~ll_assert /\ hci_hbuf_total > 0
    /\ c <= hci_hbuf_sent - hci_hbuf_acked
    /\ hci_hbuf_acked' = hci_hbuf_acked + c
    /\ hbuf_signal' = 1
    /\ UNCHANGED <<ctlrVars, prioVars, recv_fifo, arrived, hbuf_pend, hbuf_count,
                   reset_bit, flushed, hci_hbuf_total, hci_hbuf_sent,
                   unitVars, host_out, n_cmds, ll_assert, isoVars, sendVars, isoRxVars>>

\* HCI Reset: the link layer reclaims its units, the counts are zeroed, the reset
\* bit is set and the re-check signal is raised.
HostReset ==
    /\ ~ll_assert
    /\ hci_hbuf_total' = 0 /\ hci_hbuf_sent' = 0 /\ hci_hbuf_acked' = 0
    /\ reset_bit' = TRUE
    /\ hbuf_signal' = 1
    /\ UNCHANGED <<ctlrVars, prioVars, recv_fifo, arrived, hbuf_pend, hbuf_count,
                   flushed, unitVars, host_out, n_cmds, ll_assert, isoVars, sendVars, isoRxVars>>

CmdOp(op, cmd, u) == [op |-> op, cmd |-> cmd, unit |-> u]

CmdOpsPutFirst(evt, gen, cmd, u) ==
    IF ~evt THEN <<>>
    ELSE (IF gen THEN <<CmdOp("hci_get_class", cmd, u), CmdOp("k_fifo_put", cmd, u)>>
          ELSE <<>>) \o <<CmdOp("bt_recv_prio", cmd, NoNode)>>

\* The calls of one cmd_handle(), in program order: if (evt) { bt_recv_prio(evt);
\* if (node_rx) { hci_get_class(node_rx); k_fifo_put(&recv_fifo, node_rx); } }
CmdOps(evt, gen, cmd, u) ==
    IF ~evt THEN <<>>
    ELSE <<CmdOp("bt_recv_prio", cmd, NoNode)>>
         \o (IF gen THEN <<CmdOp("hci_get_class", cmd, u), CmdOp("k_fifo_put", cmd, u)>>
             ELSE <<>>)

\* cmd_handle(): hci_cmd_handle() gave a reply (evt) and maybe a unit (gen, of
\* type t and handle h). The reply goes to bt_recv_prio; then the unit is
\* classified and put on recv_fifo. No reply: nothing is sent or queued. What
\* hci_driver_send() does around the call is left to it.
cmd_handle(evt, gen, t, h) ==
    /\ ~ll_assert /\ n_cmds < MaxCmds
    /\ gen => (evt /\ next_id <= MaxUnits)
    /\ n_cmds' = n_cmds + 1
    /\ cmd_ops' = cmd_ops \o CmdOps(evt, gen, n_cmds + 1, next_id)
    /\ prio_out' = IF evt THEN Append(prio_out, PrioEvt("CMD_REPLY", 0, 0, NoNode))
                   ELSE prio_out
    /\ IF gen
       THEN /\ node_type' = [node_type EXCEPT ![next_id] = t]
            /\ node_handle' = [node_handle EXCEPT ![next_id] = h]
            /\ user_meta' = [user_meta EXCEPT ![next_id] = ClassOfType(t)]
            /\ class_writes' = CountClassWrite({next_id})
            /\ FifoPut(next_id)
            /\ next_id' = next_id + 1
       ELSE UNCHANGED <<node_type, node_handle, user_meta, next_id, class_writes,
                        recv_fifo, arrived>>
    /\ UNCHANGED <<rxq, rx_log, isoq, n_cmplt, sem_prio_recv, pc_prio, iso_received,
                   gateVars, creditVars, released, host_out, ll_assert, isoVars,
                   isoRxVars>>

\* what the send entry leaves alone besides send_log
sendFrame == <<ctlrVars, pc_prio, iso_received, recv_fifo, arrived, gateVars, creditVars,
               unitVars, host_out, n_cmds, ll_assert, isoVars, isoRxVars, cmd_ops>>

\* acl_handle(): hci_acl_handle() may give an event, which goes to bt_recv_prio.
acl_handle(evt) ==
    /\ prio_out' = IF evt THEN Append(prio_out, PrioEvt("ACL_REPLY", 0, 0, NoNode))
                   ELSE prio_out
    /\ UNCHANGED sendFrame

\* iso_handle(): hci_iso_handle() may give an event, which goes to bt_recv_prio.
iso_handle(evt) ==
    /\ prio_out' = IF evt THEN Append(prio_out, PrioEvt("ISO_REPLY", 0, 0, NoNode))
                   ELSE prio_out
    /\ UNCHANGED sendFrame

\* ---------------------------------------------------------- hci_driver_send
EINVAL == 22
MaxSends == 3

\* bt_buf_get_type(buf)
BT_BUF_CMD == "CMD"
BT_BUF_ACL_OUT == "ACL_OUT"
BT_BUF_ISO_OUT == "ISO_OUT"
\* a type the switch has no case for
BT_BUF_EVT == "EVT"
BufTypes == {BT_BUF_CMD, BT_BUF_ACL_OUT, BT_BUF_ISO_OUT, BT_BUF_EVT}
SendCases == {BT_BUF_CMD, BT_BUF_ACL_OUT, BT_BUF_ISO_OUT}

\* what hci_acl_handle() / hci_iso_handle() may return: 0 or a negative errno
HandlerErrs == {0, -1, -EINVAL}

\* the handler the switch calls for a type
HandlerOf(type) ==
    CASE type = BT_BUF_CMD -> "cmd_handle"
      [] type = BT_BUF_ACL_OUT -> "acl_handle"
      [] type = BT_BUF_ISO_OUT -> "iso_handle"
      [] OTHER -> "none"

SendUnrefAlways(err) == 1

\* if (!err) { net_buf_unref(buf); }: how often the packet is unreferenced
SendUnref(err) == IF err = 0 THEN 1 ELSE 0

\* One call as send_log keeps it: the packet (type, len), the handler called
\* and what it returned, the result of the call, the unreferences of the packet.
SendRec(type, len, handler, err, ret, unref) ==
    [type |-> type, len |-> len, handler |-> handler, err |-> err, ret |-> ret,
     unref |-> unref]

\* hci_driver_send(buf) with a packet of the given type and length; err, evt, gen,
\* t, h are what the handler called answers (cmd_handle returns 0).
hci_driver_send(type, len, err, evt, gen, t, h) ==
    /\ ~ll_assert /\ Len(send_log) < MaxSends
    /\ IF len = 0 \/ type \notin SendCases
       THEN /\ send_log' = Append(send_log, SendRec(type, len, "none", 0, -EINVAL, 0))
            /\ UNCHANGED <<prio_out, sendFrame>>
       ELSE /\ CASE type = BT_BUF_CMD -> err = 0 /\ cmd_handle(evt, gen, t, h)
                 [] type = BT_BUF_ACL_OUT -> ~gen /\ acl_handle(evt)
                 [] type = BT_BUF_ISO_OUT -> ~gen /\ iso_handle(evt)
            /\ send_log' = Append(send_log, SendRec(type, len, HandlerOf(type), err, err,
                                                    SendUnref(err)))

\* ------------------------------------------------------- ISO SDU sink (HCI)
BT_HCI_ISO_HDR_SIZE == 4
BT_HCI_ISO_TS_DATA_HDR_SIZE == 8
SDU_HCI_HDR_SIZE == BT_HCI_ISO_HDR_SIZE + BT_HCI_ISO_TS_DATA_HDR_SIZE
ISOAL_SDU_STATUS_VALID == 0

\* sys_cpu_to_le16 / sys_cpu_to_le32 as the bytes written to the buffer
LE16(x) == <<(x % 65536) % 256, (x % 65536) \div 256>>
LE32(x) == <<x % 256, (x \div 256) % 256, (x \div 65536) % 256,
             (x \div 16777216) % 256>>

\* bt_iso_flags_pack, bt_iso_handle_pack, bt_iso_pkt_len_pack
bt_iso_flags_pack(pb, ts) == (pb % 4) + 4 * (ts % 2)
bt_iso_handle_pack(h, pb, ts) == ((h % 4096) + 4096 * bt_iso_flags_pack(pb, ts)) % 65536
bt_iso_pkt_len_pack(slen, psf) == ((slen % 4096) + 16384 * (psf % 4)) % 65536

TsFlagMut(pb) == pb % 2

\* ts = !(pb & 1)
TsFlag(pb) == IF pb % 2 = 1 THEN 0 ELSE 1

\* len = sdu_written + BT_HCI_ISO_TS_DATA_HDR_SIZE
IsoLen(sdu_written) == (sdu_written + BT_HCI_ISO_TS_DATA_HDR_SIZE) % 65536

\* The two headers sink_sdu_emit_hci() pushes in front of the payload: the outer
\* ISO header, then the timestamp/sequence/length header.
IsoHeaders(handle, pb, sdu_written, status, timestamp, seqn) ==
    LE16(bt_iso_handle_pack(handle, pb, TsFlag(pb)))
    \o LE16(IsoLen(sdu_written))
    \o LE32(timestamp)
    \o LE16(seqn)
    \o LE16(bt_iso_pkt_len_pack(sdu_written, status))

IsoHandles == {64, 3839}
IsoTimestamps == {0, 305419896}
IsoSeqns == {1, 65535}
MaxSduLen == 2
\* the payload bytes of a PDU (their values are not looked at)
pdu_payload(consume_len) == [i \in 1..consume_len |-> 170]

\* sink_sdu_alloc_hci(): a buffer with the header space reserved.
sink_sdu_alloc_hci(h) ==
    /\ iso_pc = "idle"
    /\ iso_buf' = [headroom |-> SDU_HCI_HDR_SIZE, data |-> <<>>]
    /\ iso_sink' = [IsoIdle EXCEPT !.handle = h]
    /\ iso_pc' = "sdu"
    /\ UNCHANGED <<mainVars, iso_out, iso_skip_invalid>>

\* sink_sdu_write_hci(): append the payload; the recombination counts it in
\* sdu_written.
sink_sdu_write_hci(consume_len) ==
    /\ iso_pc = "sdu"
    /\ iso_sink.written + consume_len <= MaxSduLen
    /\ iso_buf' = [iso_buf EXCEPT !.data = @ \o pdu_payload(consume_len)]
    /\ iso_sink' = [iso_sink EXCEPT !.written = @ + consume_len]
    /\ UNCHANGED <<mainVars, iso_pc, iso_out, iso_skip_invalid>>

\* sink_sdu_emit_hci(): push the headers and hand the buffer to bt_recv; with
\* CONFIG_BT_CTLR_CONN_ISO_HCI_DATAPATH_SKIP_INVALID_DATA an invalid SDU is
\* unreferenced instead. iso_out keeps what bt_recv got with the parameters of
\* the call.
sink_sdu_emit_hci(pb, status, timestamp, seqn) ==
    /\ iso_pc = "sdu"
    /\ iso_out' =
          IF iso_skip_invalid /\ status # ISOAL_SDU_STATUS_VALID
          THEN NoSdu
          ELSE [bytes |-> IsoHeaders(iso_sink.handle, pb, iso_sink.written, status,
                                     timestamp, seqn) \o iso_buf.data,
                handle |-> iso_sink.handle, pb |-> pb, written |-> iso_sink.written,
                status |-> status, ts |-> timestamp, seqn |-> seqn, n |-> 1]
    /\ iso_buf' = [headroom |-> 0, data |-> <<>>]
    /\ iso_sink' = IsoIdle
    /\ iso_pc' = "idle"
    /\ UNCHANGED <<mainVars, iso_skip_invalid>>

\* ------------------------------------------------------------ specification
CtlrNext(ts, hs) ==
    \/ \E t \in ts : \E h \in HandlesOf(t) \cap hs : CtlrRx(t, h)
    \/ \E h \in hs : CtlrIsoRx(h, IsoHealthy)

\* prio_recv_thread while ll_rx_get() reports no completed packets
PrioNodeNext ==
    \/ PrioNode
    \/ PrioEnd
    \/ PrioSemTake

PrioNext ==
    \/ PrioNumCmplt
    \/ PrioNodeNext

WorkerNext ==
    \/ WorkerFifo
    \/ WorkerRetry

CreditNext ==
    \/ \E n \in 1..MaxTotal : HostBufferSize(n)
    \/ HostFlowEnable
    \/ \E c \in 1..MaxTotal : HostAck(c)

CmpltNext == \E hc \in Cmplts : CtlrTxCmplt(hc[1], hc[2])

\* a command packet
CmdNext ==
    \E evt \in BOOLEAN, gen \in BOOLEAN, t \in CmdTypes :
        hci_driver_send(BT_BUF_CMD, 1, 0, evt, gen, t, 64)

\* any packet
SendNext ==
    \E type \in BufTypes, len \in 0..1, err \in HandlerErrs, evt \in BOOLEAN,
       gen \in BOOLEAN, t \in CmdTypes :
        hci_driver_send(type, len, err, evt, gen, t, 64)

IsoNext ==
    \/ \E h \in IsoHandles : sink_sdu_alloc_hci(h)
    \/ \E n \in 1..MaxSduLen : sink_sdu_write_hci(n)
    \/ \E pb \in 0..3, st \in 0..2, ts \in IsoTimestamps, sn \in IsoSeqns :
          sink_sdu_emit_hci(pb, st, ts, sn)

\* The whole driver.
\* ISO units of every stream and datapath state the build can meet
IsoRxNext == \E h \in {64}, c \in IsoCases : CtlrIsoRx(h, c)

Next ==
    \/ CtlrNext(RxTypes, Handles)
    \/ IsoRxNext
    \/ CmpltNext
    \/ PrioNext
    \/ WorkerNext
    \/ CreditNext
    \/ HostReset
    \/ CmdNext
    \/ IsoNext

Spec == Init /\ [][Next]_vars

\* The ISO receive path in every build, next to gated ACL data.
InitIsoRx == Init /\ ~iso_skip_invalid
NextIsoRx ==
    \/ CtlrNext({"DC_PDU"}, {64})
    \/ IsoRxNext
    \/ PrioNodeNext
    \/ WorkerNext
    \/ CreditNext
SpecIsoRx == InitIsoRx /\ [][NextIsoRx]_vars

\* The receive path with the flow control gate and HCI Reset. Left out: the
\* completion counts (they only reach prio_out), the units commands generate and
\* the SDU sink (its own variables).
NextGate ==
    \/ CtlrNext(RxTypes, {64})
    \/ PrioNodeNext
    \/ WorkerNext
    \/ CreditNext
    \/ HostReset

SpecGate == InitRecv /\ [][NextGate]_vars

\* The receive path with the flow control gate and the units commands generate.
NextCmd ==
    \/ CtlrNext(RxTypes, {64})
    \/ PrioNodeNext
    \/ WorkerNext
    \/ CreditNext
    \/ CmdNext

SpecCmd == InitRecv /\ [][NextCmd]_vars

\* The priority path: completion counts and terminations of either handle, with
\* the flow control gate behind it.
PrioTypes == {"TERMINATE", "DC_PDU"}

NextPrio ==
    \/ CtlrNext(PrioTypes, Handles)
    \/ CmpltNext
    \/ PrioNext
    \/ WorkerNext
    \/ CreditNext

SpecPrio == InitRecv /\ [][NextPrio]_vars

\* The gate with a recv_thread that runs whenever hbuf_signal is raised: k_poll()
\* returns while the signal is raised, and the signal stays raised until
\* recv_thread resets it. Nothing is assumed of the link layer or the host.
LiveTypes == {"DC_PDU", "CONN_UPDATE"}

NextLive ==
    \/ CtlrNext(LiveTypes, {64})
    \/ PrioNodeNext
    \/ WorkerNext
    \/ CreditNext
    \/ HostReset

SpecLive == InitRecv /\ [][NextLive]_vars /\ WF_vars(WorkerRetry)

\* Every way a unit comes to the driver and leaves it: completions of a
\* discardable event, of gated ACL data and of ISO data, units generated by
\* commands, the flow control gate and HCI Reset.
OwnTypes == {"ADV_REPORT", "DC_PDU"}

NextOwn ==
    \/ CtlrNext(OwnTypes, {64})
    \/ PrioNodeNext
    \/ WorkerNext
    \/ CreditNext
    \/ HostReset
    \/ CmdNext

SpecOwn == InitRecv /\ [][NextOwn]_vars

\* The three gated classes side by side: ACL data, the disconnection event and an
\* LLCP event, with the flow control gate and HCI Reset.
OrderTypes == {"DC_PDU", "TERMINATE", "CONN_UPDATE"}

NextOrder ==
    \/ CtlrNext(OrderTypes, {64})
    \/ PrioNodeNext
    \/ WorkerNext
    \/ CreditNext
    \/ HostReset

SpecOrder == InitRecv /\ [][NextOrder]_vars

\* The SDU sink callbacks alone; they are the same in every build.
InitSink == Init /\ iso_build = "SYNC_ISO"
SpecIso == InitSink /\ [][IsoNext]_vars

\* The send entry, with recv_thread taking the units the commands generate.
NextSend ==
    \/ SendNext
    \/ WorkerFifo

SpecSend == InitRecv /\ [][NextSend]_vars

\* Terminations of either handle on the general queue, flow control left off.
NextTerm ==
    \/ CtlrNext({"TERMINATE"}, Handles)
    \/ PrioNodeNext
    \/ WorkerFifo

SpecTerm == InitRecv /\ [][NextTerm]_vars

\* prio_recv_thread with all three kinds of work: ISO units, completion counts
\* and units of the general queue; flow control left off.
NextDrain ==
    \/ CtlrNext({"DC_PDU"}, {64})
    \/ CmpltNext
    \/ PrioNext
    \/ WorkerFifo

SpecDrain == InitRecv /\ [][NextDrain]_vars

\* The gate with a recv_thread that runs whenever k_poll() can return: on the
\* raised signal, and on a unit on recv_fifo while the signal is not raised. No
\* reset: the host raises the signal only with an acknowledgement.
NextPoll ==
    \/ CtlrNext(LiveTypes, {64})
    \/ PrioNodeNext
    \/ WorkerNext
    \/ CreditNext

SpecPoll == InitRecv /\ [][NextPoll]_vars /\ WF_vars(WorkerRetry) /\ WF_vars(WorkerFifo)

\* ------------------------------------------------------------------ claims
\* recv_thread takes unit n off recv_fifo and presents it to the gate.
Presented(n) ==
    /\ WorkerFifo
    /\ recv_fifo # <<>> /\ Head(recv_fifo) = n

\* The step encodes unit n (encode_node releases it) and does not leave it parked.
Admitted(n) ==
    /\ released'[n] = released[n] + 1
    /\ n \notin Range(hbuf_pend')

\* The step puts unit n at the tail of hbuf_pend and encodes nothing.
Parked(n) ==
    /\ hbuf_pend' # <<>> /\ hbuf_pend'[Len(hbuf_pend')] = n
    /\ released' = released /\ host_out' = host_out

\* A retry pass takes unit n off the head of hbuf_pend and encodes it.
RetryAdmitted(n) ==
    /\ WorkerRetry
    /\ hbuf_pend # <<>> /\ Head(hbuf_pend) = n
    /\ Admitted(n)

Delivered(n) == HostPkt(n, "encode") \in Range(host_out)

ConnClasses == {"EVT_CONNECTION", "EVT_LLCP"}

\* The place of unit u in the order of arrival on recv_fifo.
Pos(q, u) == CHOOSE k \in 1..Len(q) : q[k] = u

IsCmplt(e) == e.k = "cmplt"
IsNumCmplt(e) == e.evt = "NUM_COMPLETED_PACKETS"
\* How many completion records the link layer reported up to place p of rx_log.
CmpltsUpTo(p) == Len(SelectSeq(SubSeq(rx_log, 1, p), IsCmplt))

\* The head of hbuf_pend is u and the gate can take it: a connection or LLCP
\* event, or ACL data with a host buffer available.
HeadAdmissible(u) ==
    /\ hbuf_pend # <<>> /\ Head(hbuf_pend) = u
    /\ hci_hbuf_total > 0
    /\ \/ user_meta[u] \in ConnClasses
       \/ /\ user_meta[u] = "ACL_DATA"
          /\ hci_hbuf_total - (hci_hbuf_sent - hci_hbuf_acked) > 0

\* The fields of a delivered ISO packet, read back from its bytes.
U16At(b, i) == b[i] + 256 * b[i + 1]
PktFlags(b) == U16At(b, 1) \div 4096
PktHandle(b) == U16At(b, 1) % 4096
PktPb(b) == PktFlags(b) % 4
PktTs(b) == (PktFlags(b) \div 4) % 2
PktLen(b) == U16At(b, 3)

C2_AlwaysAdmitted ==
    [][\A n \in UnitIds :
          (Presented(n) /\ user_meta[n] \in ConnClasses) => Admitted(n)]_vars

\* C2 as the code has it: a connection or LLCP event unit presented to the gate
\* is encoded in that same step, whatever the credit, when flow control is off
\* or hbuf_pend is empty; with flow control on and hbuf_pend not empty it is
\* appended to hbuf_pend; and the retry pass that finds it at the head of
\* hbuf_pend encodes it, whatever the credit.
C2_ConnAdmission ==
    [][
        \A n \in UnitIds :
            user_meta[n] \in ConnClasses =>
                /\ Presented(n) =>
                       IF hci_hbuf_total <= 0 \/ hbuf_pend = <<>>
                       THEN Admitted(n) ELSE Parked(n)
                /\ (WorkerRetry /\ hci_hbuf_total > 0 /\ ~reset_bit
                     /\ hbuf_pend # <<>> /\ Head(hbuf_pend) = n) => Admitted(n)
    ]_vars

\* A connection or LLCP event unit is parked behind an ACL unit.
C2_Witness ==
    /\ Len(hbuf_pend) >= 2
    /\ user_meta[hbuf_pend[1]] = "ACL_DATA"
    /\ user_meta[hbuf_pend[2]] \in ConnClasses

\* C3: of two packets delivered to the host for units of one class, the one
\* delivered first is of the unit that arrived first on recv_fifo; and when a
\* unit's packet has been delivered, every unit of its class that arrived before
\* it has been encoded already (none is still on recv_fifo or in hbuf_pend).
C3_FifoPerClass ==
    /\ \A i, j \in 1..Len(host_out) :
          (i < j /\ user_meta[host_out[i].unit] = user_meta[host_out[j].unit])
              => Pos(arrived, host_out[i].unit) < Pos(arrived, host_out[j].unit)
    /\ \A i \in 1..Len(host_out) : \A k \in 1..Len(arrived) :
          (k < Pos(arrived, host_out[i].unit)
           /\ user_meta[arrived[k]] = user_meta[host_out[i].unit])
              => released[arrived[k]] = 1

\* Two ACL units delivered in turn on one credit, a third still parked.
C3_Witness ==
    /\ hci_hbuf_total = 1 /\ hci_hbuf_sent = 2
    /\ Len(host_out) = 2
    /\ hbuf_pend # <<>> /\ user_meta[Head(hbuf_pend)] = "ACL_DATA"

\* C4: prio_recv_thread sends one Number Of Completed Packets event per record
\* ll_rx_get() reported, in order, with the handle and count of the record; the
\* event of a record is in prio_out before any unit completed after the record
\* is on recv_fifo; the disconnection event of a termination is in prio_out,
\* with its handle, when the unit is on recv_fifo; and with a record or unit at
\* the head of the general queue the thread's step is enabled whatever recv_fifo
\* and hbuf_pend hold.
C4_PrioBeforeHandover ==
    LET reported == SelectSeq(rx_log, IsCmplt)
        sent == SelectSeq(prio_out, IsNumCmplt)
    IN /\ Len(sent) <= Len(reported)
       /\ \A i \in 1..Len(sent) :
             /\ sent[i].handle = reported[i].handle
             /\ sent[i].count = reported[i].count
       /\ Len(sent) = Len(reported) - Len(SelectSeq(rxq, IsCmplt))
       /\ \A p, q \in 1..Len(rx_log) :
             (p < q /\ IsCmplt(rx_log[p]) /\ rx_log[q].id \in Range(arrived))
                 => CmpltsUpTo(p) <= Len(sent)
       /\ \A u \in Range(arrived) :
             node_type[u] = "TERMINATE" =>
                 \E i \in 1..Len(prio_out) :
                     prio_out[i] = PrioEvt("DISCONN_COMPLETE", node_handle[u], 0, u)
       /\ (~ll_assert /\ pc_prio \in {"top", "loop"} /\ rxq # <<>>)
             => ENABLED (PrioNumCmplt \/ PrioNode)

\* The count of handle 65 was sent and the unit completed after the record has
\* been handed over, with a backlog on recv_fifo and a unit parked in hbuf_pend.
C4_Witness ==
    /\ \E i \in 1..Len(prio_out) :
          prio_out[i] = PrioEvt("NUM_COMPLETED_PACKETS", 65, 3, NoNode)
    /\ Len(rx_log) >= 2 /\ IsCmplt(rx_log[1]) /\ rx_log[2].id \in Range(arrived)
    /\ recv_fifo # <<>> /\ hbuf_pend # <<>>

\* C5: the class of a unit is written once, not later than its k_fifo_put: a
\* unit still on a completion queue has no class yet, a unit that reached
\* recv_fifo has had the class of its type written exactly once, and no step of
\* recv_thread writes user_meta.
C5_ClassifiedOnce ==
    [][
        /\ \A u \in UnitIds :
              /\ class_writes'[u] <= 1
              /\ (u \in Range(isoq') \/ \E i \in 1..Len(rxq') : rxq'[i].id = u)
                     => (class_writes'[u] = 0 /\ u \notin Range(arrived'))
              /\ u \in Range(arrived') =>
                     /\ class_writes'[u] = 1
                     /\ user_meta'[u] = ClassOfType(node_type'[u])
                     /\ user_meta'[u] # "NONE"
              /\ (class_writes'[u] = class_writes[u]) => (user_meta'[u] = user_meta[u])
        /\ (WorkerFifo \/ WorkerRetry) => UNCHANGED <<user_meta, class_writes>>
    ]_vars

\* A unit a command generated and a unit from the completion queue have both
\* been through the gate, one of them parked on the way.
C5_Witness ==
    /\ \E u \in UnitIds : node_type[u] = "DC_PDU" /\ released[u] = 1
    /\ \E u \in UnitIds : u \in Range(hbuf_pend) /\ class_writes[u] = 1
    /\ n_cmds = 1 /\ \E u \in UnitIds : node_type[u] = "CONNECTION" /\ released[u] = 1

\* C6: whenever the head of hbuf_pend can be taken (after an acknowledgement
\* gave ACL data a buffer, or after the unit before it was taken), hbuf_signal
\* is raised, and recv_thread goes on to encode the unit (ACL data: deliver its
\* packet) with no unit arriving, unless a reset drops it first.
C6_ParkedDrain ==
    /\ [](\A u \in UnitIds : HeadAdmissible(u) => hbuf_signal = 1)
    /\ \A u \in UnitIds :
          HeadAdmissible(u) ~>
              \/ released[u] = 1 /\ (user_meta[u] = "ACL_DATA" => Delivered(u))
              \/ u \in flushed

\* An acknowledgement made room for the parked ACL unit at the head; an LLCP
\* event waits behind it, and nothing else is queued anywhere.
C6_Witness ==
    /\ Len(hbuf_pend) = 2
    /\ HeadAdmissible(hbuf_pend[1]) /\ user_meta[hbuf_pend[1]] = "ACL_DATA"
    /\ user_meta[hbuf_pend[2]] = "EVT_LLCP"
    /\ hci_hbuf_acked > 0
    /\ recv_fifo = <<>> /\ rxq = <<>> /\ isoq = <<>>

\* C7: the gate activation that finds the reset bit set clears it (nothing else
\* does), takes every unit off hbuf_pend and releases none of them; a unit so
\* dropped is never encoded, released, delivered or queued again; and a retry
\* pass that finds the bit set with hbuf_pend empty changes nothing but the bit
\* and the signal.
C7_ResetFlush ==
    [][
        /\ (reset_bit /\ ~reset_bit') => (WorkerFifo \/ WorkerRetry)
        /\ (reset_bit /\ (WorkerFifo \/ WorkerRetry)) =>
               /\ ~reset_bit'
               /\ Range(hbuf_pend') \cap Range(hbuf_pend) = {}
               /\ \A u \in Range(hbuf_pend) : released'[u] = released[u]
               /\ flushed' = flushed \cup Range(hbuf_pend)
        /\ \A u \in flushed' :
               /\ released'[u] = 0
               /\ HostPkt(u, "encode") \notin Range(host_out')
               /\ u \notin Range(hbuf_pend') \cup Range(recv_fifo')
        /\ (reset_bit /\ hbuf_pend = <<>> /\ WorkerRetry) =>
               /\ hbuf_pend' = <<>>
               /\ UNCHANGED <<released, host_out, flushed, recv_fifo, creditVars>>
    ]_vars

\* A reset dropped a parked unit; the bit is consumed and the gate is in use
\* again.
C7_Witness ==
    /\ flushed # {} /\ ~reset_bit
    /\ \E u \in UnitIds : u \notin flushed /\ released[u] = 1

\* C8: a discardable or required event unit presented to the gate is encoded in
\* that same step; hbuf_pend only ever holds connection event, LLCP event and
\* ACL units; and no LL_ASSERT is reached.
C8_EventsNeverParked ==
    [][
        /\ \A n \in UnitIds :
              (Presented(n) /\ user_meta[n] \in {"EVT_DISCARDABLE", "EVT_REQUIRED"})
                  => Admitted(n)
        /\ \A u \in Range(hbuf_pend') :
              user_meta'[u] \in {"EVT_CONNECTION", "EVT_LLCP", "ACL_DATA"}
        /\ ~ll_assert'
    ]_vars

\* A required event went through while an older ACL unit is parked without
\* credit.
C8_Witness ==
    /\ hbuf_pend # <<>>
    /\ hci_hbuf_total - (hci_hbuf_sent - hci_hbuf_acked) = 0
    /\ \E u \in UnitIds :
          /\ u > Head(hbuf_pend)
          /\ user_meta[u] = "EVT_REQUIRED" /\ released[u] = 1

\* C9: in every packet sink_sdu_emit_hci delivers, the TS_Flag bit of the outer
\* ISO header is 1 when the PB flag of the call is 0b00 or 0b10 and 0 when it is
\* 0b01 or 0b11, and the header carries that PB flag and the session handle.
C9_TsFlagFromPb ==
    iso_out.n = 1 =>
        /\ PktPb(iso_out.bytes) = iso_out.pb
        /\ PktHandle(iso_out.bytes) = iso_out.handle
        /\ (iso_out.pb \in {0, 2} => PktTs(iso_out.bytes) = 1)
        /\ (iso_out.pb \in {1, 3} => PktTs(iso_out.bytes) = 0)

\* A delivered continuation fragment of the high handle: TS_Flag clear.
C9_Witness ==
    /\ iso_out.n = 1 /\ iso_out.pb = 1 /\ iso_out.handle = 3839
    /\ PktTs(iso_out.bytes) = 0

\* C10: in every packet sink_sdu_emit_hci delivers, the bytes between the outer
\* header and the payload hold the 32-bit timestamp if and only if TS_Flag is
\* set (8 bytes with it, 4 without), and the outer length field is the payload
\* length plus the size of that header.
C10_TimestampIffFlag ==
    iso_out.n = 1 =>
        LET b == iso_out.bytes
            hdr == Len(b) - BT_HCI_ISO_HDR_SIZE - iso_out.written
        IN /\ hdr = (IF PktTs(b) = 1 THEN 8 ELSE 4)
           /\ PktLen(b) = iso_out.written + hdr
           /\ PktLen(b) = Len(b) - BT_HCI_ISO_HDR_SIZE

\* C11: a call of hci_driver_send with an empty packet or a packet of a type it
\* has no case for returns a negative result, calls no handler, sends nothing,
\* queues nothing and does not unreference the packet; a call whose handler
\* returns 0 unreferences the packet exactly once and returns 0; a call whose
\* handler returns an error does not unreference the packet and returns that
\* error.
C11_SendResult ==
    [][
        Len(send_log') > Len(send_log) =>
            LET r == send_log'[Len(send_log')]
            IN /\ send_log' = Append(send_log, r)
               /\ (r.len = 0 \/ r.type \notin {"CMD", "ACL_OUT", "ISO_OUT"}) =>
                      /\ r.ret < 0 /\ r.handler = "none" /\ r.unref = 0
                      /\ UNCHANGED <<prio_out, sendFrame>>
               /\ (r.len > 0 /\ r.type \in {"CMD", "ACL_OUT", "ISO_OUT"}) =>
                      /\ r.handler # "none"
                      /\ r.ret = r.err
                      /\ (r.err = 0 => r.unref = 1)
                      /\ (r.err # 0 => r.unref = 0)
    ]_vars

\* Three calls: a packet of an unknown type was refused, a data packet's handler
\* failed, and a command went through and generated a unit.
C11_Witness ==
    /\ Len(send_log) = 3
    /\ \E i \in 1..3 : send_log[i].type = "EVT" /\ send_log[i].len = 1
                       /\ send_log[i].ret = -22
    /\ \E i \in 1..3 : send_log[i].type = "ACL_OUT" /\ send_log[i].err = -1
                       /\ send_log[i].unref = 0
    /\ \E i \in 1..3 : send_log[i].type = "CMD" /\ send_log[i].unref = 1
    /\ arrived # <<>>

\* The places of prio_out that hold the disconnection event made for unit u.
DisconnEvts(u) ==
    {i \in 1..Len(prio_out) :
        prio_out[i].evt = "DISCONN_COMPLETE" /\ prio_out[i].unit = u}

\* C12: for every termination unit prio_recv_thread has taken from the general
\* queue there is exactly one disconnection event in prio_out, with the handle
\* of the unit, and no disconnection event is sent for anything else; the unit
\* is on recv_fifo (or went through it) exactly when evt_flags has
\* BT_HCI_EVT_FLAG_RECV; without the flag it is released in prio_recv_thread
\* and nothing is delivered for it on the regular channel.
C12_Termination ==
    /\ \A u \in UnitIds :
          (node_type[u] = "TERMINATE" /\ class_writes[u] = 1) =>
              LET flagged == "RECV" \in process_prio_evt(u, user_meta[u]).evt_flags
              IN /\ Cardinality(DisconnEvts(u)) = 1
                 /\ \A i \in DisconnEvts(u) : prio_out[i].handle = node_handle[u]
                 /\ (u \in Range(arrived)) <=> flagged
                 /\ ~flagged =>
                        /\ released[u] = 1
                        /\ \A j \in 1..Len(host_out) : host_out[j].unit # u
    /\ \A i \in 1..Len(prio_out) :
          prio_out[i].evt = "DISCONN_COMPLETE" =>
              /\ prio_out[i].unit \in UnitIds
              /\ node_type[prio_out[i].unit] = "TERMINATE"
              /\ class_writes[prio_out[i].unit] = 1

\* Terminations of handle 64 and of handle 65 have their events on the priority
\* channel, in the order taken; the first unit has also been delivered by
\* recv_thread.
C12_Witness ==
    /\ Len(prio_out) = 2
    /\ prio_out[1].evt = "DISCONN_COMPLETE" /\ prio_out[1].handle = 64
    /\ prio_out[2].evt = "DISCONN_COMPLETE" /\ prio_out[2].handle = 65
    /\ Delivered(prio_out[1].unit)
    /\ released[prio_out[2].unit] = 0

\* How many units have been taken off recv_fifo so far.
Taken == Len(arrived) - Len(recv_fifo)
\* The units the step puts on recv_fifo, in order.
Put == SubSeq(arrived', Len(arrived) + 1, Len(arrived'))
\* A step of prio_recv_thread, of recv_thread, of the caller of hci_driver_send.
PrioStep == PrioNumCmplt \/ PrioNode \/ PrioEnd \/ PrioSemTake
WorkerStep == WorkerFifo \/ WorkerRetry
SendStep == Len(send_log') = Len(send_log) + 1

\* C13 as stated: every step that puts a unit on recv_fifo is a step of
\* prio_recv_thread, and every step that takes one off is a step of recv_thread.
C13_SingleProducer ==
    [][
        /\ Len(arrived') > Len(arrived) => PrioStep
        /\ Taken' > Taken => WorkerStep
    ]_vars

\* C13 as the code has it: a step that puts units on recv_fifo is a step of
\* prio_recv_thread or a call of hci_driver_send with a command that generated
\* the unit (cmd_handle); either appends at the tail and takes nothing off.
\* Only recv_thread takes units off, one at a time, from the head, in its FIFO
\* iteration; recv_thread puts nothing on recv_fifo.
C13_TwoProducers ==
    [][
        /\ Len(arrived') > Len(arrived) =>
               /\ PrioStep \/ SendStep
               /\ SendStep =>
                      /\ send_log'[Len(send_log')].handler = "cmd_handle"
                      /\ Put = <<next_id>>
               /\ arrived' = arrived \o Put
               /\ recv_fifo' = recv_fifo \o Put
        /\ Taken' # Taken =>
               /\ WorkerFifo
               /\ recv_fifo' = Tail(recv_fifo)
               /\ arrived' = arrived
        /\ WorkerStep => arrived' = arrived
    ]_vars

\* recv_fifo has had a unit from prio_recv_thread and a unit a command
\* generated, and recv_thread has taken one off.
C13_Witness ==
    /\ \E u \in Range(arrived) : \E i \in 1..Len(rx_log) : rx_log[i].id = u
    /\ \E u \in Range(arrived) :
          /\ node_type[u] = "CONNECTION"
          /\ \A i \in 1..Len(rx_log) : rx_log[i].id # u
    /\ Taken > 0 /\ recv_fifo # <<>>

\* prio_recv_thread goes from running to k_sem_take().
PrioBlocks == pc_prio # "wait" /\ pc_prio' = "wait"
\* The iteration that ends with this step has handed over an ISO unit.
IsoThisIteration ==
    \/ pc_prio = "top" /\ isoq # <<>>
    \/ pc_prio = "loop" /\ iso_received

\* C14 as stated: prio_recv_thread goes to k_sem_take() only at the end of an
\* iteration in which it took no ISO unit, sent no completion count and took no
\* unit of the general queue.
C14_BlocksOnlyIfIdle ==
    [][PrioBlocks => (pc_prio = "top" /\ isoq = <<>> /\ rxq = <<>>)]_vars

\* C14 as the code has it: prio_recv_thread goes to k_sem_take() only at the
\* end of an iteration that took no ISO unit and, with ll_rx_get() reporting
\* neither a count nor a unit, took no unit of the general queue; completion
\* counts sent in that iteration do not keep it from waiting. After taking a
\* unit of the general queue, or an ISO unit, it starts the next iteration; after
\* a count it goes on with the ll_rx_get() loop. Whenever it is blocked in
\* k_sem_take() with the semaphore at 0, both completion queues are empty.
C14_DrainToEmpty ==
    /\ [][
           /\ PrioBlocks => (PrioEnd /\ rxq = <<>> /\ ~IsoThisIteration)
           /\ PrioNode => pc_prio' = "top"
           /\ (PrioEnd /\ IsoThisIteration) => pc_prio' = "top"
           /\ PrioNumCmplt => pc_prio' = "loop"
       ]_vars
    /\ [](pc_prio = "wait" /\ sem_prio_recv = 0 => rxq = <<>> /\ isoq = <<>>)

\* prio_recv_thread is blocked after an iteration that only sent a completion
\* count; before that it handed over an ISO unit and a unit of the general
\* queue.
C14_Witness ==
    /\ pc_prio = "wait" /\ sem_prio_recv = 0
    /\ prio_out # <<>> /\ prio_out[Len(prio_out)].evt = "NUM_COMPLETED_PACKETS"
    /\ Len(rx_log) = 2 /\ rx_log[2].k = "cmplt"
    /\ \E u \in Range(arrived) : node_type[u] = "ISO_PDU"
    /\ \E u \in Range(arrived) : node_type[u] = "DC_PDU"

\* Unit n is an ACL unit presented to the gate with flow control on and no host
\* buffer available.
NoCredit(n) ==
    /\ Presented(n) /\ user_meta[n] = "ACL_DATA"
    /\ hci_hbuf_total > 0
    /\ hci_hbuf_total - (hci_hbuf_sent - hci_hbuf_acked) = 0

C16_RetryLeavesFifo ==
    /\ [][
           WorkerRetry =>
               /\ recv_fifo' = recv_fifo /\ arrived' = arrived
               /\ \/ hbuf_pend' = hbuf_pend
                  \/ hbuf_pend # <<>> /\ hbuf_pend' = Tail(hbuf_pend)
               /\ hbuf_signal' = 1 => (hbuf_pend' # <<>> /\ hbuf_pend' # hbuf_pend)
       ]_vars
    /\ [](recv_fifo = SubSeq(arrived, Taken + 1, Len(arrived)))
    /\ \A u \in UnitIds :
          (hbuf_signal = 1 /\ recv_fifo # <<>> /\ Head(recv_fifo) = u) ~>
              (u \notin Range(recv_fifo) /\ (u \in Range(hbuf_pend) \/ released[u] = 1))

\* Both wake conditions hold at once: hbuf_signal is raised for the parked ACL
\* unit an acknowledgement made room for, and a unit that arrived later waits
\* on recv_fifo.
C16_Witness ==
    /\ hbuf_signal = 1 /\ recv_fifo # <<>>
    /\ hbuf_pend # <<>> /\ HeadAdmissible(Head(hbuf_pend))
    /\ user_meta[Head(hbuf_pend)] = "ACL_DATA"
    /\ Head(recv_fifo) > Head(hbuf_pend)


\* The ISO unit's stream, or the stream's datapath, is absent on a broadcast
\* (synchronized) stream, the kind whose code tests for it.
IsoAbsent(n) ==
    /\ node_iso[n].kind = "BIS"
    /\ (~node_iso[n].stream \/ node_iso[n].dp = "none")

\* What one step does with ISO unit n. Taken off the isochronous queue, it is put
\* on recv_fifo with class ISO data and nothing about it is sent on the priority
\* channel. Presented to recv_thread, it is not parked, every packet the step
\* delivers comes from the sink's emit, and unless the step halts the unit is
\* released once; with the stream or datapath absent the step does not halt,
\* delivers nothing and releases the unit.
IsoUnitStep(n) ==
    /\ (n \in Range(isoq) /\ n \notin Range(isoq')) =>
          /\ PrioStep
          /\ n \in Range(Put)
          /\ user_meta'[n] = HCI_CLASS_ISO_DATA
          /\ \A i \in (Len(prio_out) + 1)..Len(prio_out') : prio_out'[i].unit # n
    /\ (Presented(n) /\ user_meta[n] = HCI_CLASS_ISO_DATA) =>
          /\ n \notin Range(hbuf_pend')
          /\ \A i \in (Len(host_out) + 1)..Len(host_out') :
                host_out'[i] = HostPkt(n, "emit")
          /\ ~ll_assert' => released'[n] = released[n] + 1
          /\ IsoAbsent(n) =>
                /\ ~ll_assert'
                /\ released'[n] = released[n] + 1
                /\ host_out' = host_out

\* C17: an ISO-data unit is always forwarded by prio_recv_thread to recv_fifo and
\* never sent on the priority channel, is never parked by the gate, yields only
\* packets of the sink's emit, and is released exactly once at the end of the
\* encode step, also when its stream or datapath is absent on a broadcast
\* stream: then the fragment is dropped and the step does not halt.
C17_IsoPath ==
    /\ [][\A n \in UnitIds : IsoUnitStep(n)]_vars
    /\ [](\A n \in UnitIds : node_type[n] = IsoType => released[n] <= 1)

\* The same in the builds with one kind of ISO stream.
C17_OneKindBuild ==
    [][iso_build # "BOTH" => \A n \in UnitIds : IsoUnitStep(n)]_vars

\* An ISO unit of a broadcast stream without datapath stopped the system in a
\* build with both kinds of stream.
C17_Fault ==
    \E n \in UnitIds :
        /\ iso_build = "BOTH" /\ IsoAbsent(n)
        /\ ll_assert /\ released[n] = 0
        /\ n \in Range(arrived) /\ n \notin Range(recv_fifo)


\* The reply events of commands sent on the priority channel so far.
CmdReplies == {i \in 1..Len(prio_out) : prio_out[i].evt = "CMD_REPLY"}
\* The units cmd_handle has put on recv_fifo so far.
CmdUnits == {cmd_ops[i].unit : i \in {j \in 1..Len(cmd_ops) : cmd_ops[j].op = "k_fifo_put"}}

\* C18: whenever the execution of a command generates a unit, the call that
\* handles the command sends the reply on the priority channel, classifies the
\* unit once and appends it to recv_fifo, and among the calls cmd_handle makes
\* the bt_recv_prio of the reply precedes the k_fifo_put of the unit; so a unit
\* a command generated is on recv_fifo, and later delivered to the host by
\* recv_thread, only when the reply of its command is already in prio_out.
C18_ReplyBeforeUnit ==
    /\ [][(SendStep /\ next_id' # next_id) =>
            /\ send_log'[Len(send_log')].handler = "cmd_handle"
            /\ prio_out' = Append(prio_out, PrioEvt("CMD_REPLY", 0, 0, NoNode))
            /\ recv_fifo' = Append(recv_fifo, next_id)
            /\ class_writes'[next_id] = 1
            /\ user_meta'[next_id] = ClassOfType(node_type'[next_id])
            /\ next_id \in CmdUnits'
            /\ host_out' = host_out]_vars
    /\ [](\A i \in 1..Len(cmd_ops) :
            cmd_ops[i].op = "k_fifo_put" =>
                /\ i > 2
                /\ cmd_ops[i - 1] = CmdOp("hci_get_class", cmd_ops[i].cmd, cmd_ops[i].unit)
                /\ cmd_ops[i - 2] = CmdOp("bt_recv_prio", cmd_ops[i].cmd, NoNode))
    /\ [](/\ Cardinality(CmdReplies) >= Cardinality(CmdUnits)
          /\ \A i \in 1..Len(host_out) :
                host_out[i].unit \in CmdUnits => CmdReplies # {})

\* A command generated a unit: its reply is in prio_out, and recv_thread has
\* taken the unit from recv_fifo and delivered it to the host.
C18_Witness ==
    /\ CmdUnits # {}
    /\ CmdReplies # {}
    /\ host_out # <<>> /\ host_out[1].unit \in CmdUnits
    /\ released[host_out[1].unit] = 1


\* ACL packets delivered to the host and not yet acknowledged.
InFlight == hci_hbuf_sent - hci_hbuf_acked

\* C19: while flow control is enabled (hci_hbuf_total > 0), the ACL packets
\* delivered to the host and not yet acknowledged are never more than
\* hci_hbuf_total, whatever arrivals, admissions, retry passes and host
\* acknowledgements came before; so every hbuf_count that recv_thread computes
\* then is between 0 and hci_hbuf_total, never negative and never the -1 that
\* marks flow control as disabled.
C19_CreditInvariant ==
    /\ [](hci_hbuf_total > 0 => (0 <= InFlight /\ InFlight <= hci_hbuf_total))
    /\ [][(WorkerStep /\ hci_hbuf_total > 0) =>
            (0 <= hbuf_count' /\ hbuf_count' <= hci_hbuf_total)]_vars

\* All credit is used: as many ACL packets are with the host as it has buffers,
\* after an acknowledgement and a retry pass, and another ACL unit is parked.
C19_Witness ==
    /\ hci_hbuf_total > 0 /\ InFlight = hci_hbuf_total
    /\ hci_hbuf_acked > 0 /\ hci_hbuf_sent > hci_hbuf_total
    /\ hbuf_pend # <<>> /\ user_meta[Head(hbuf_pend)] = HCI_CLASS_ACL_DATA
    /\ hbuf_count = 0


\* How often unit u occurs in queue q.
Occurs(q, u) == Cardinality({i \in 1..Len(q) : q[i] = u})
\* The driver has taken unit u from a completion queue or got it from a command.
Owned(u) == u < next_id /\ u \notin Range(isoq) /\ RxNode(u) \notin Range(rxq)
\* The places unit u is in: on recv_fifo, on hbuf_pend, released (once per
\* release), discarded from hbuf_pend by a reset.
Places(u) ==
    Occurs(recv_fifo, u) + Occurs(hbuf_pend, u) + released[u]
    + (IF u \in flushed THEN 1 ELSE 0)

\* C20: every unit the driver has taken from a completion queue or received
\* from a command is at every moment in exactly one place: on recv_fifo, on
\* hbuf_pend, released once, or discarded from hbuf_pend by a reset; a unit the
\* driver has not taken is in none. So no unit is released twice, none is
\* queued after its release, none is lost between the queues, and a release is
\* never undone; the encode step releases the unit also when it delivers
\* nothing for it.
C20_Ownership ==
    /\ [](\A u \in UnitIds : Places(u) = IF Owned(u) THEN 1 ELSE 0)
    /\ [][\A u \in UnitIds :
            /\ released'[u] >= released[u]
            /\ (Presented(u) /\ u \notin Range(hbuf_pend')) => released'[u] = 1]_vars

\* A reset discarded a parked unit, a unit that a command generated has been
\* released by the encode step, and a third unit was released as well.
C20_Witness ==
    /\ flushed # {}
    /\ \E u \in CmdUnits : released[u] = 1
    /\ Cardinality({u \in UnitIds : released[u] = 1}) = 2
    /\ recv_fifo = <<>> /\ hbuf_pend = <<>>


\* Position of unit u in the order of arrival on recv_fifo (0: not arrived).
ArrivedAt(u) ==
    IF u \in Range(arrived) THEN CHOOSE i \in 1..Len(arrived) : arrived[i] = u ELSE 0
\* Unit u is on recv_fifo or on hbuf_pend, not yet encoded.
Waiting(u) == u \in Range(recv_fifo) \/ u \in Range(hbuf_pend)
IsGated(u) ==
    user_meta[u] \in {HCI_CLASS_ACL_DATA, HCI_CLASS_EVT_CONNECTION, HCI_CLASS_EVT_LLCP}
IsConnEvt(u) == user_meta[u] \in {HCI_CLASS_EVT_CONNECTION, HCI_CLASS_EVT_LLCP}

\* C21: while hbuf_pend holds a unit (and no reset is waiting to empty it), every
\* ACL-data, connection-event or LLCP-event unit that recv_thread takes from
\* recv_fifo is appended at the tail of hbuf_pend and not encoded; a retry pass
\* takes only the head of hbuf_pend; so the packets of these classes reach the
\* host in the order their units arrived on recv_fifo, and when a connection or
\* LLCP event is delivered no ACL-data unit that arrived before it is still
\* waiting.
C21_GatedOrder ==
    /\ [][\A n \in UnitIds :
            (Presented(n) /\ IsGated(n) /\ hbuf_pend # <<>> /\ ~reset_bit) =>
                /\ hbuf_pend' = Append(hbuf_pend, n)
                /\ released'[n] = released[n]
                /\ host_out' = host_out]_vars
    /\ [][(WorkerRetry /\ hbuf_pend' # hbuf_pend /\ ~reset_bit) =>
            /\ hbuf_pend' = Tail(hbuf_pend)
            /\ released'[Head(hbuf_pend)] = released[Head(hbuf_pend)] + 1]_vars
    /\ [](\A i, j \in 1..Len(host_out) :
            (i < j /\ IsGated(host_out[i].unit) /\ IsGated(host_out[j].unit)) =>
                ArrivedAt(host_out[i].unit) < ArrivedAt(host_out[j].unit))
    /\ [](\A e, a \in UnitIds :
            (/\ IsConnEvt(e) /\ released[e] = 1
             /\ user_meta[a] = HCI_CLASS_ACL_DATA
             /\ ArrivedAt(a) > 0 /\ ArrivedAt(a) < ArrivedAt(e)) => ~Waiting(a))

\* An ACL-data unit is parked for lack of credit and the disconnection event
\* that arrived after it is parked behind it; an earlier ACL packet is with the
\* host.
C21_Witness ==
    /\ Len(hbuf_pend) = 2
    /\ user_meta[hbuf_pend[1]] = HCI_CLASS_ACL_DATA
    /\ node_type[hbuf_pend[2]] = "TERMINATE"
    /\ ArrivedAt(hbuf_pend[1]) < ArrivedAt(hbuf_pend[2])
    /\ hci_hbuf_total > 0 /\ InFlight = hci_hbuf_total
    /\ host_out # <<>> /\ ~reset_bit

====
